---- MODULE Spec2Model ----
(***************************************************************************)
(* Content Filter Agent (src/agent): the per-track frame loop of           *)
(* ContentFilterAgent.process_video_track, the stillness detector of       *)
(* VideoAnalyzer, the CommandSender and the entrypoint that starts the     *)
(* loops.                                                                  *)
(*                                                                         *)
(* Time is a wall clock counted in ticks of TickMs milliseconds; every     *)
(* comparison of the code is made in milliseconds.  Synchronous code runs  *)
(* in no time; time passes (and other tasks run) only at an await.         *)
(***************************************************************************)
EXTENDS Integers, Sequences, FiniteSets, TLC

\* ------------------------------------------------------------------ bounds
TickMs == 250            \* granularity of the wall clock
Horizon == 7             \* ticks explored after the entrypoint has started
MaxQueue == 1            \* frames buffered in one VideoStream under Spec
MaxCommands == 4         \* commands built before the frame source stops
ControlHorizon == 2      \* ticks explored by ControlSpec after the entrypoint start
RaceHorizon == 1         \* ticks explored by RaceSpec after the entrypoint start
LiveHorizon == 6         \* ticks explored by LiveSpec after the entrypoint start
BudgetHorizon == 3       \* ticks explored by BudgetSpec after the entrypoint start
PulseHorizon == 8        \* ticks explored by PulseSpec after the entrypoint has started

\* ------------------------------------------------------- program constants
Epoch == 4               \* time.time() at construction: far from 0
MaxWatchMs == 10000      \* MAX_VIDEO_WATCH_DURATION default "10" (seconds)
FastPhaseMs == 7000      \* time_elapsed > 7
FastFps == 4
NormalFps == 2
MinIntervalMs == 500     \* min_interval = 0.5
SettleMs == 400          \* asyncio.sleep(0.4)
static_threshold == 5
sample_rate == 1000

None == "None"
\* Python's None where the other values are records
NoFrame == [none |-> TRUE]
NoResult == [none |-> TRUE]
NoCall == [none |-> TRUE]
NoCommand == [none |-> TRUE]
\* _analyze_with_openai raised instead of returning a reply
Raised == [raised |-> TRUE]
VideoTracks == {"v1", "v2"}
AudioTracks == {"a1"}
Tracks == VideoTracks \cup AudioTracks
LoopIds == 1..2
\* the job is assigned some time after the agent object was built in main()
StartDelays == {35}
RaceDelays == {40}
BudgetDelays == {20, 30}
\* values of MAX_VIDEO_WATCH_DURATION, in ms
WatchBudgets == {8000, 10000, 12000}

\* A frame buffer: its length and the bytes at offsets 0, 1000, 2000, ...
\* (the only bytes _calculate_frame_similarity reads).
FrameA == [len |-> 1500, bytes |-> <<7, 7>>]
FrameB == [len |-> 1500, bytes |-> <<7, 9>>]
Frames == {FrameA, FrameB}

\* Buffers for the stillness detector alone: an empty buffer, and buffers of
\* 40 sampled positions of which the first n differ from those of Still(0)
EmptyFrame == [len |-> 0, bytes |-> <<>>]
Still(n) == [len |-> 40000, bytes |-> [k \in 1..40 |-> IF k <= n THEN 9 ELSE 7]]
AnalyzerFrames == {EmptyFrame, FrameA, FrameB} \cup {Still(n) : n \in 0..3}

VARIABLES
    now,                  \* wall clock, in ticks
    deadline,             \* the clock stops here (bound of the exploration)
    max_video_watch_duration, \* ContentFilterAgent.max_video_watch_duration, ms
    entry_pc,             \* position of entrypoint()
    subscribed,           \* tracks whose publication.track is set
    ended,                \* tracks whose frame stream has ended
    connected,            \* room.isconnected()
    triggers,             \* ContentFilterAgent.triggers
    current_url,          \* ContentFilterAgent.current_url
    last_scroll_time,     \* ContentFilterAgent.last_scroll_time
    video_start_time,     \* ContentFilterAgent.video_start_time
    previous_frame_data,  \* VideoAnalyzer.previous_frame_data
    static_frame_count,   \* VideoAnalyzer.static_frame_count
    command_count,        \* CommandSender.command_count
    published,            \* the payload publish_data accepted last, and by whom
    issued,               \* command ids handed out since the last reset
    loop_track,           \* the track of each process_video_track task
    pc,                   \* position of each task
    queue,                \* frames waiting in the task's VideoStream
    last_processed_time,  \* local of process_video_track
    detection,            \* local of process_video_track: the latest result
    call,                 \* the analyze_frame call in flight: prompt, video_ended,
                          \* calls of the model made so far
    sleep_from,           \* when the task's asyncio.sleep(0.4) began
    history               \* per task, what the properties need of its past

agentVars == <<triggers, current_url, last_scroll_time, video_start_time>>
analyzerVars == <<previous_frame_data, static_frame_count>>
senderVars == <<command_count, published, issued>>
entryVars == <<entry_pc, subscribed, ended>>
loopVars == <<loop_track, pc, queue, last_processed_time, detection, call,
             sleep_from>>
vars == <<now, deadline, max_video_watch_duration, connected, agentVars, analyzerVars, senderVars,
          entryVars, loopVars, history>>

\* ----------------------------------------------------------- VideoAnalyzer

\* the loop "for i in range(0, len(data1), sample_rate)" from offset i on:
\* <<matches, samples>>
RECURSIVE SampleLoop(_, _, _)
SampleLoop(data1, data2, i) ==
    IF i >= data1.len THEN <<0, 0>>
    ELSE LET rest == SampleLoop(data1, data2, i + sample_rate)
             k == (i \div sample_rate) + 1
         IN <<rest[1] + (IF data1.bytes[k] = data2.bytes[k] THEN 1 ELSE 0),
              rest[2] + 1>>

\* _calculate_frame_similarity without the test of the lengths: the loop
\* runs over the positions both buffers have
_calculate_frame_similarity_unchecked(data1, data2) ==
    LET short == IF data1.len <= data2.len THEN data1 ELSE data2
        ms == SampleLoop(short, IF short = data1 THEN data2 ELSE data1, 0)
    IN IF ms[2] > 0 THEN [num |-> ms[1], den |-> ms[2]]
       ELSE [num |-> 0, den |-> 1]

\* _calculate_frame_similarity in which no samples count as a full match
_calculate_frame_similarity_empty_alike(data1, data2) ==
    IF data1.len # data2.len THEN [num |-> 0, den |-> 1]
    ELSE LET ms == SampleLoop(data1, data2, 0)
         IN IF ms[2] > 0 THEN [num |-> ms[1], den |-> ms[2]]
            ELSE [num |-> 1, den |-> 1]

\* _calculate_frame_similarity: the float matches / samples as a fraction
_calculate_frame_similarity(data1, data2) ==
    IF data1.len # data2.len THEN [num |-> 0, den |-> 1]
    ELSE LET ms == SampleLoop(data1, data2, 0)
         IN IF ms[2] > 0 THEN [num |-> ms[1], den |-> ms[2]]
            ELSE [num |-> 0, den |-> 1]

\* the comparison made with >= instead of >
VerySimilarOrEqual(similarity) == similarity.num * 100 >= 95 * similarity.den

\* "similarity > 0.95"
VerySimilar(similarity) == similarity.num * 100 > 95 * similarity.den

\* the threshold compared with > instead of >=
ThresholdExceeded(count) == count > static_threshold

\* "self.static_frame_count >= self.static_threshold"
ThresholdReached(count) == count >= static_threshold

\* _detect_video_end that reports the end without resetting the counter
_detect_video_end_keep_count(frame, prev, count) ==
    IF prev = NoFrame
    THEN [ended |-> FALSE, prev |-> frame, count |-> count]
    ELSE LET similarity == _calculate_frame_similarity(frame, prev)
             counted == IF VerySimilar(similarity) THEN count + 1 ELSE 0
         IN [ended |-> ThresholdReached(counted), prev |-> frame,
             count |-> counted]

\* _detect_video_end(frame) on the analyzer state (prev, count):
\* the value returned and the analyzer state it leaves
_detect_video_end(frame, prev, count) ==
    IF prev = NoFrame
    THEN [ended |-> FALSE, prev |-> frame, count |-> count]
    ELSE LET similarity == _calculate_frame_similarity(frame, prev)
             counted == IF VerySimilar(similarity) THEN count + 1 ELSE 0
         IN IF ThresholdReached(counted)
            THEN [ended |-> TRUE, prev |-> frame, count |-> 0]
            ELSE [ended |-> FALSE, prev |-> frame, count |-> counted]

\* the DetectionResult analyze_frame returns from its except branch
ErrorResult ==
    [trigger_detected |-> FALSE, trigger_name |-> None, confidence |-> 0,
     description |-> "Error", error |-> TRUE, video_ended |-> FALSE]

\* what the model's reply parses to (confidence in percent)
Replies ==
    { [trigger_detected |-> FALSE, trigger_name |-> None, confidence |-> 10,
       description |-> "text"],
      [trigger_detected |-> TRUE, trigger_name |-> "a", confidence |-> 90,
       description |-> "text"] }

\* a reply that reports a trigger whose name is in no trigger list
OffListReply ==
    [trigger_detected |-> TRUE, trigger_name |-> "b", confidence |-> 90,
     description |-> "text"]

\* a reply whose "description" is null: every key is there, one is no string
NullDescription ==
    [trigger_detected |-> FALSE, trigger_name |-> None, confidence |-> 10,
     description |-> None]

\* analyze_frame's normal return: the parsed reply plus the video_ended flag
\* computed before the call
DetectionResult(reply, video_ended) ==
    [trigger_detected |-> reply.trigger_detected,
     trigger_name |-> reply.trigger_name,
     confidence |-> reply.confidence,
     description |-> reply.description,
     error |-> FALSE, video_ended |-> video_ended]

\* _create_detection_prompt without the test for an empty trigger list
_create_detection_prompt_closed(ts) == [mode |-> "closed", triggers |-> ts]

\* _create_detection_prompt(triggers): the general-detection prompt for an
\* empty list, else the prompt that names the triggers
_create_detection_prompt(ts) ==
    IF ts = <<>> THEN [mode |-> "general", triggers |-> <<>>]
    ELSE [mode |-> "closed", triggers |-> ts]

\* what "await self.client.chat.completions.create" yields: an exception, a
\* text that is no JSON, or a JSON object, complete or with one key missing
Responses ==
    {[kind |-> "transport_error"], [kind |-> "not_json"]}
    \cup {[kind |-> "json", missing |-> k, reply |-> r] :
             k \in {"none", "trigger_detected", "confidence", "description"},
             r \in Replies}
    \cup {[kind |-> "json", missing |-> "none", reply |-> NullDescription]}

\* _analyze_with_openai that fills in a default for a missing key
_analyze_with_openai_lenient(response) ==
    IF response.kind = "json" THEN response.reply
    ELSE [trigger_detected |-> TRUE, trigger_name |-> None, confidence |-> 10,
          description |-> "text"]

\* _analyze_with_openai: the parsed reply, or Raised (every exception is
\* logged and raised again)
_analyze_with_openai(response) ==
    IF response.kind # "json" THEN Raised
    ELSE IF response.missing # "none" THEN Raised
    ELSE response.reply

\* analyze_frame from the return of the model call on: the reply completed
\* with video_ended, or the result of the except branch
analyze_frame(response, video_ended) ==
    IF _analyze_with_openai(response) = Raised THEN ErrorResult
    ELSE DetectionResult(_analyze_with_openai(response), video_ended)

\* ----------------------------------------------------------- CommandSender

\* the counter returned without the increment
_get_command_id_stale(count) == count

\* _get_command_id: the counter after the increment, which is the id returned
_get_command_id(count) == count + 1

\* the payload send_click_command builds (timestamp left out)
ClickCommand(click_target, id) ==
    [type |-> "CLICK_ELEMENT", selector |-> click_target.selector,
     text |-> click_target.text, method |-> click_target.method,
     command_id |-> id]

\* the payload send_trigger_notification builds (timestamp left out)
TriggerNotification(trigger_name, confidence, id) ==
    [type |-> "TRIGGER_DETECTED", trigger |-> trigger_name,
     confidence |-> confidence, command_id |-> id]

ThreeDots ==
    [selector |-> "three_dots", method |-> "tiktok_three_dots",
     text |-> "More actions"]
NotInterested ==
    [selector |-> "not_interested", method |-> "tiktok_not_interested",
     text |-> "Not interested"]
NextVideo ==
    [selector |-> "next_video", method |-> "tiktok_next_video",
     text |-> "Next video", fallback |-> "scroll_down"]

\* _send_data without the room.isconnected() test
DeliveredUnchecked(accepted) == accepted

\* _send_data: the payload reaches the transport only if the room is
\* connected and publish_data does not raise
Delivered(accepted) == connected /\ accepted

\* broadcast_data(room, data): skipped when the room is disconnected, else
\* published, or the exception of publish_data raised again
broadcast_data(accepted) ==
    IF ~connected THEN "skipped"
    ELSE IF accepted THEN "published" ELSE "raised"

\* Send in which a command id is taken only for a payload that is published
SendCountsOnDelivery(l, payload, accepted) ==
    /\ command_count' = IF Delivered(accepted)
                        THEN _get_command_id(command_count)
                        ELSE command_count
    /\ issued' = IF Delivered(accepted)
                 THEN Append(issued, _get_command_id(command_count))
                 ELSE issued
    /\ published' = IF Delivered(accepted)
                    THEN [cmd |-> payload, loop |-> l]
                    ELSE published

\* Send in which the counter is read before a suspension and written after
\* it: a task that sends while another task is inside its own send sequence
\* reads the counter the other task has read
SendSuspendedAllocation(l, payload, accepted) ==
    LET id == IF \E o \in LoopIds \ {l} : pc[o] = "nav"
              THEN command_count
              ELSE _get_command_id(command_count)
    IN  /\ command_count' = id
        /\ issued' = Append(issued, id)
        /\ published' = IF Delivered(accepted)
                        THEN [cmd |-> payload, loop |-> l]
                        ELSE published

\* the tail of every send_* method: the payload, built with a fresh command
\* id, is handed to _send_data for task l
Send(l, payload, accepted) ==
    /\ command_count' = _get_command_id(command_count)
    /\ issued' = Append(issued, _get_command_id(command_count))
    /\ published' = IF Delivered(accepted)
                    THEN [cmd |-> payload, loop |-> l]
                    ELSE published

\* send_click_command(room, participant, click_target)
send_click_command(l, click_target, accepted) ==
    Send(l, ClickCommand(click_target, _get_command_id(command_count)), accepted)

\* send_trigger_notification(room, participant, trigger_name, confidence)
send_trigger_notification(l, trigger_name, confidence, accepted) ==
    Send(l, TriggerNotification(trigger_name, confidence,
                                _get_command_id(command_count)), accepted)

\* reset_counter
ResetCounter ==
    /\ command_count > 0
    /\ command_count' = 0
    /\ issued' = <<>>
    /\ UNCHANGED <<now, deadline, max_video_watch_duration, connected, agentVars, analyzerVars,
                   published, entryVars, loopVars, history>>


\* ---------------------------------------------------------------- history
\* session_start: when the task was created (its track subscribed);
\* clean: every result of the task so far was a non-detection without
\*        video_ended;
\* elig_at, elig_emitted: the task's latest navigation-eligible cycle, when it
\*        was decided and whether it sent the next-video click;
\* nav_at: when the task last decided to send the next-video click.
NoHistory ==
    [session_start |-> 0, clean |-> TRUE, elig_at |-> 0,
     elig_emitted |-> FALSE, nav_at |-> 0]

\* the history of a task after a cycle with result d was decided, eligible
\* for navigation or not, sending the next-video click or not
Observed(h, d, eligible, emitted) ==
    [session_start |-> h.session_start,
     clean |-> h.clean /\ ~d.trigger_detected /\ ~d.video_ended,
     elig_at |-> IF eligible THEN now ELSE h.elig_at,
     elig_emitted |-> IF eligible THEN emitted ELSE h.elig_emitted,
     nav_at |-> IF emitted THEN now ELSE h.nav_at]

\* --------------------------------------------------- process_video_track

\* "if time_elapsed > 7: fps_limit = 4 else: fps_limit = 2"
FpsLimit(time_elapsed) ==
    IF time_elapsed * TickMs > FastPhaseMs THEN FastFps ELSE NormalFps

\* the interval computed as the integer quotient 1 // fps_limit, which is 0
ThrottledIntegerInterval(current_time, last, fps_limit) ==
    (current_time - last) * TickMs < (1 \div fps_limit) * 1000

\* "current_time - last_processed_time < (1.0 / fps_limit)"
Throttled(current_time, last, fps_limit) ==
    (current_time - last) * TickMs * fps_limit < 1000

\* no watch budget: only stillness ends a video
NeverTimeBasedEnd(time_elapsed) == FALSE

\* "time_elapsed >= self.max_video_watch_duration"
TimeBasedEnd(time_elapsed) ==
    time_elapsed * TickMs >= max_video_watch_duration

\* "(detection.video_ended or time_based_video_end) and not
\*  detection.trigger_detected"
NavigationEligible(d, time_elapsed) ==
    (d.video_ended \/ TimeBasedEnd(time_elapsed)) /\ ~d.trigger_detected

\* no rate limit at all
NeverRateLimited(time_since_scroll) == FALSE

\* the rate limit with half the interval
RateLimitedHalfInterval(time_since_scroll) ==
    time_since_scroll * TickMs * 2 < MinIntervalMs

\* "time_since_scroll < min_interval"
RateLimited(time_since_scroll) == time_since_scroll * TickMs < MinIntervalMs

\* NavStep in which a cycle suppressed by the rate limit stays pending: the
\* next cycle without a trigger that is not rate limited sends the click
NavStepPendingPulse(l, d, vst, lst, accepted) ==
    LET pending == /\ history[l].elig_at # 0
                   /\ ~history[l].elig_emitted
                   /\ ~d.trigger_detected
        eligible == NavigationEligible(d, now - vst) \/ pending
    IN  /\ video_start_time' = vst
        /\ last_scroll_time' = lst
        /\ history' = [history EXCEPT ![l] =
               Observed(@, d, eligible, eligible /\ ~RateLimited(now - lst))]
        /\ IF eligible /\ ~RateLimited(now - lst)
           THEN /\ send_click_command(l, NextVideo, accepted)
                /\ pc' = [pc EXCEPT ![l] = "nav"]
                /\ detection' = [detection EXCEPT ![l] = d]
           ELSE /\ UNCHANGED senderVars
                /\ pc' = [pc EXCEPT ![l] = "idle"]
                /\ detection' = [detection EXCEPT ![l] = d]

\* lines 277-331 for the result d, with the timers as the trigger branch
\* left them (vst, lst): send the next-video click, or end the cycle
NavStep(l, d, vst, lst, accepted) ==
    /\ video_start_time' = vst
    /\ last_scroll_time' = lst
    /\ history' = [history EXCEPT ![l] =
           Observed(@, d, NavigationEligible(d, now - vst),
                    NavigationEligible(d, now - vst) /\ ~RateLimited(now - lst))]
    /\ IF NavigationEligible(d, now - vst) /\ ~RateLimited(now - lst)
       THEN /\ send_click_command(l, NextVideo, accepted)
            /\ pc' = [pc EXCEPT ![l] = "nav"]
            /\ detection' = [detection EXCEPT ![l] = d]
       ELSE /\ UNCHANGED senderVars
            /\ pc' = [pc EXCEPT ![l] = "idle"]
            /\ detection' = [detection EXCEPT ![l] = d]

\* Decide with the end-of-video check made before the trigger check
DecideNavFirst(l, d, accepted) ==
    IF (d.video_ended \/ TimeBasedEnd(now - video_start_time))
       /\ ~RateLimited(now - last_scroll_time)
    THEN /\ detection' = [detection EXCEPT ![l] = d]
         /\ send_click_command(l, NextVideo, accepted)
         /\ pc' = [pc EXCEPT ![l] = "nav"]
         /\ history' = [history EXCEPT ![l] = Observed(@, d, TRUE, TRUE)]
         /\ UNCHANGED <<video_start_time, last_scroll_time>>
    ELSE IF d.trigger_detected
    THEN /\ detection' = [detection EXCEPT ![l] = d]
         /\ send_click_command(l, ThreeDots, accepted)
         /\ pc' = [pc EXCEPT ![l] = "click1"]
         /\ UNCHANGED <<video_start_time, last_scroll_time, history>>
    ELSE NavStep(l, d, video_start_time, last_scroll_time, accepted)

\* lines 205-212: building the log entry raises on a description that is
\* no string ("len(detection.description)")
LogRaises(d) == d.description = None

\* Decide without the handler of lines 333-335: the exception ends the task
DecideUnguarded(l, d, accepted) ==
    IF LogRaises(d)
       THEN /\ detection' = [detection EXCEPT ![l] = d]
            /\ pc' = [pc EXCEPT ![l] = "done"]
            /\ UNCHANGED <<video_start_time, last_scroll_time, senderVars,
                           history>>
    ELSE IF d.trigger_detected
       THEN /\ detection' = [detection EXCEPT ![l] = d]
            /\ send_click_command(l, ThreeDots, accepted)
            /\ pc' = [pc EXCEPT ![l] = "click1"]
            /\ UNCHANGED <<video_start_time, last_scroll_time, history>>
    ELSE NavStep(l, d, video_start_time, last_scroll_time, accepted)

\* Decide in which the rate limit also guards the trigger sequence
DecideRateLimitsTrigger(l, d, accepted) ==
    IF LogRaises(d) \/ (d.trigger_detected /\ RateLimited(now - last_scroll_time))
       THEN /\ detection' = [detection EXCEPT ![l] = d]
            /\ pc' = [pc EXCEPT ![l] = "idle"]
            /\ UNCHANGED <<video_start_time, last_scroll_time, senderVars,
                           history>>
    ELSE IF d.trigger_detected
       THEN /\ detection' = [detection EXCEPT ![l] = d]
            /\ send_click_command(l, ThreeDots, accepted)
            /\ pc' = [pc EXCEPT ![l] = "click1"]
            /\ UNCHANGED <<video_start_time, last_scroll_time, history>>
    ELSE NavStep(l, d, video_start_time, last_scroll_time, accepted)

\* lines 205-331 up to the first await, once analyze_frame has returned d;
\* an exception of lines 205-212 is caught by the handler of lines 333-335
Decide(l, d, accepted) ==
    IF LogRaises(d)
       THEN /\ detection' = [detection EXCEPT ![l] = d]
            /\ pc' = [pc EXCEPT ![l] = "idle"]
            /\ UNCHANGED <<video_start_time, last_scroll_time, senderVars,
                           history>>
    ELSE IF d.trigger_detected
       THEN /\ detection' = [detection EXCEPT ![l] = d]
            /\ send_click_command(l, ThreeDots, accepted)
            /\ pc' = [pc EXCEPT ![l] = "click1"]
            /\ UNCHANGED <<video_start_time, last_scroll_time, history>>
    ELSE NavStep(l, d, video_start_time, last_scroll_time, accepted)

\* lines 155-170: the task starts running and opens its VideoStream
LoopStart(l) ==
    /\ pc[l] = "start"
    /\ pc' = [pc EXCEPT ![l] = "idle"]
    /\ UNCHANGED <<now, deadline, max_video_watch_duration, connected, agentVars, analyzerVars,
                   senderVars, entryVars, loop_track, queue,
                   last_processed_time, detection, call, sleep_from, history>>

\* one iteration of "async for frame_event in video_stream" up to its first
\* await: the frame is skipped, or analyze_frame is entered; convert_ok says
\* whether _frame_to_base64 succeeds on this frame
NextFrame(l, convert_ok, accepted) ==
    /\ pc[l] = "idle"
    /\ queue[l] # <<>>
    /\ LET frame == Head(queue[l])
           fps_limit == FpsLimit(now - video_start_time)
           r == _detect_video_end(frame, previous_frame_data, static_frame_count)
       IN /\ queue' = [queue EXCEPT ![l] = Tail(queue[l])]
          /\ IF Throttled(now, last_processed_time[l], fps_limit)
             THEN UNCHANGED <<agentVars, analyzerVars, senderVars, pc,
                              last_processed_time, detection, call, history>>
             ELSE /\ last_processed_time' =
                        [last_processed_time EXCEPT ![l] = now]
                  /\ IF convert_ok
                     THEN /\ previous_frame_data' = r.prev
                          /\ static_frame_count' = r.count
                          /\ call' = [call EXCEPT ![l] =
                                 [prompt |-> _create_detection_prompt(triggers),
                                  video_ended |-> r.ended,
                                  model_calls |-> 1]]
                          /\ pc' = [pc EXCEPT ![l] = "classify"]
                          /\ UNCHANGED <<agentVars, senderVars, detection,
                                         history>>
                     ELSE /\ Decide(l, ErrorResult, accepted)
                          /\ UNCHANGED <<triggers, current_url, analyzerVars,
                                         call>>
    /\ UNCHANGED <<now, deadline, max_video_watch_duration, connected, entryVars, loop_track, sleep_from>>

\* ClassifyReturn that calls the model a second time when the first call
\* raised
ClassifyReturnRetry(l, reply, accepted) ==
    /\ pc[l] = "classify"
    /\ IF reply = Raised /\ call[l].model_calls = 1
       THEN /\ call' = [call EXCEPT ![l].model_calls = 2]
            /\ UNCHANGED <<video_start_time, last_scroll_time, senderVars,
                           history, pc, detection>>
       ELSE /\ call' = [call EXCEPT ![l] = NoCall]
            /\ Decide(l, IF reply = Raised THEN ErrorResult
                         ELSE DetectionResult(reply, call[l].video_ended),
                      accepted)
    /\ UNCHANGED <<now, deadline, max_video_watch_duration, connected,
                   triggers, current_url, analyzerVars, entryVars,
                   loop_track, queue, last_processed_time, sleep_from>>

\* ClassifyReturn in which the error result keeps the video_ended flag the
\* stillness detector returned
ClassifyReturnKeepsPulse(l, reply, accepted) ==
    /\ pc[l] = "classify"
    /\ call' = [call EXCEPT ![l] = NoCall]
    /\ Decide(l, IF reply = Raised
                 THEN [ErrorResult EXCEPT !.video_ended = call[l].video_ended]
                 ELSE DetectionResult(reply, call[l].video_ended), accepted)
    /\ UNCHANGED <<now, deadline, max_video_watch_duration, connected,
                   triggers, current_url, analyzerVars, entryVars,
                   loop_track, queue, last_processed_time, sleep_from>>

\* _analyze_with_openai returns a parsed reply, or raises (reply = Raised)
ClassifyReturn(l, reply, accepted) ==
    /\ pc[l] = "classify"
    /\ call' = [call EXCEPT ![l] = NoCall]
    /\ Decide(l, IF reply = Raised THEN ErrorResult
                 ELSE DetectionResult(reply, call[l].video_ended), accepted)
    /\ UNCHANGED <<now, deadline, max_video_watch_duration, connected, triggers, current_url,
                   analyzerVars, entryVars, loop_track, queue,
                   last_processed_time, sleep_from>>


\* Click1Done that gives the sequence up when the transport did not take
\* the first click
Click1DoneAbortOnFailure(l) ==
    /\ pc[l] = "click1"
    /\ pc' = [pc EXCEPT ![l] =
           IF published # NoCommand /\ published.loop = l
              /\ published.cmd.command_id = command_count
           THEN "sleep" ELSE "idle"]
    /\ sleep_from' = [sleep_from EXCEPT ![l] = now]
    /\ UNCHANGED <<now, deadline, max_video_watch_duration, connected, agentVars, analyzerVars,
                   senderVars, entryVars, loop_track, queue,
                   last_processed_time, detection, call, history>>

\* the first send_click_command has returned: "await asyncio.sleep(0.4)"
Click1Done(l) ==
    /\ pc[l] = "click1"
    /\ pc' = [pc EXCEPT ![l] = "sleep"]
    /\ sleep_from' = [sleep_from EXCEPT ![l] = now]
    /\ UNCHANGED <<now, deadline, max_video_watch_duration, connected, agentVars, analyzerVars,
                   senderVars, entryVars, loop_track, queue,
                   last_processed_time, detection, call, history>>

\* the sleep is over: step 2, the click on "Not interested"
SleepDone(l, accepted) ==
    /\ pc[l] = "sleep"
    /\ (now - sleep_from[l]) * TickMs >= SettleMs
    /\ send_click_command(l, NotInterested, accepted)
    /\ pc' = [pc EXCEPT ![l] = "click2"]
    /\ UNCHANGED <<now, deadline, max_video_watch_duration, connected, agentVars, analyzerVars,
                   entryVars, loop_track, queue, last_processed_time,
                   detection, call, sleep_from, history>>

\* the second click has returned: send_trigger_notification
Click2Done(l, accepted) ==
    /\ pc[l] = "click2"
    /\ send_trigger_notification(l, detection[l].trigger_name,
                                 detection[l].confidence, accepted)
    /\ pc' = [pc EXCEPT ![l] = "notify"]
    /\ UNCHANGED <<now, deadline, max_video_watch_duration, connected, agentVars, analyzerVars,
                   entryVars, loop_track, queue, last_processed_time,
                   detection, call, sleep_from, history>>

\* NotifyDone without the reset of the two timers
NotifyDoneNoReset(l, accepted) ==
    /\ pc[l] = "notify"
    /\ NavStep(l, detection[l], video_start_time, last_scroll_time, accepted)
    /\ UNCHANGED <<now, deadline, max_video_watch_duration, connected, triggers, current_url,
                   analyzerVars, entryVars, loop_track, queue,
                   last_processed_time, call, sleep_from>>

\* NotifyDone that resets video_start_time only
NotifyDoneNoStamp(l, accepted) ==
    /\ pc[l] = "notify"
    /\ NavStep(l, detection[l], now, last_scroll_time, accepted)
    /\ UNCHANGED <<now, deadline, max_video_watch_duration, connected, triggers,
                   current_url, analyzerVars, entryVars, loop_track, queue,
                   last_processed_time, call, sleep_from>>

\* the notification has returned: both timers are reset (lines 270-272) and
\* the cycle goes on to the navigation check (lines 277-331)
NotifyDone(l, accepted) ==
    /\ pc[l] = "notify"
    /\ NavStep(l, detection[l], now, now, accepted)
    /\ UNCHANGED <<now, deadline, max_video_watch_duration, connected, triggers, current_url,
                   analyzerVars, entryVars, loop_track, queue,
                   last_processed_time, call, sleep_from>>

\* NavDone that restarts the timers only if the click was published
NavDoneOnlyIfPublished(l) ==
    /\ pc[l] = "nav"
    /\ LET sent == /\ published # NoCommand
                   /\ published.loop = l
                   /\ published.cmd.command_id = command_count
       IN /\ last_scroll_time' = IF sent THEN now ELSE last_scroll_time
          /\ video_start_time' = IF sent THEN now ELSE video_start_time
    /\ pc' = [pc EXCEPT ![l] = "idle"]
    /\ UNCHANGED detection
    /\ UNCHANGED <<now, deadline, max_video_watch_duration, connected,
                   triggers, current_url, analyzerVars, senderVars,
                   entryVars, loop_track, queue, last_processed_time, call,
                   sleep_from, history>>

\* the next-video click has returned: lines 324-328
NavDone(l) ==
    /\ pc[l] = "nav"
    /\ last_scroll_time' = now
    /\ video_start_time' = now
    /\ pc' = [pc EXCEPT ![l] = "idle"]
    /\ UNCHANGED detection
    /\ UNCHANGED <<now, deadline, max_video_watch_duration, connected, triggers, current_url,
                   analyzerVars, senderVars, entryVars, loop_track, queue,
                   last_processed_time, call, sleep_from, history>>

\* LoopEnd that cancels the task wherever it is once the track has ended
LoopEndCancelsInFlight(l) ==
    /\ pc[l] \notin {"none", "start", "done"}
    /\ loop_track[l] \in ended
    /\ pc' = [pc EXCEPT ![l] = "done"]
    /\ UNCHANGED <<now, deadline, max_video_watch_duration, connected,
                   agentVars, analyzerVars, senderVars, entryVars,
                   loop_track, queue, last_processed_time, detection, call,
                   sleep_from, history>>

\* the frame stream has ended and is drained: "async for" falls through
LoopEnd(l) ==
    /\ pc[l] = "idle"
    /\ queue[l] = <<>>
    /\ loop_track[l] \in ended
    /\ pc' = [pc EXCEPT ![l] = "done"]
    /\ UNCHANGED <<now, deadline, max_video_watch_duration, connected, agentVars, analyzerVars,
                   senderVars, entryVars, loop_track, queue,
                   last_processed_time, detection, call, sleep_from, history>>

\* ------------------------------------------------------------- the room

\* tasks whose VideoStream on track t is open
Streams(t) == {l \in LoopIds : loop_track[l] = t /\ pc[l] \notin {"none", "start", "done"}}

\* a frame of track t arrives: every open stream of the track buffers it
FrameArrive(t, f, depth) ==
    /\ t \in (subscribed \cap VideoTracks) \ ended
    /\ command_count < MaxCommands
    /\ Streams(t) # {}
    /\ \A l \in Streams(t) : Len(queue[l]) < depth
    /\ queue' = [l \in LoopIds |->
                   IF l \in Streams(t) THEN Append(queue[l], f) ELSE queue[l]]
    /\ UNCHANGED <<now, deadline, max_video_watch_duration, connected, agentVars, analyzerVars,
                   senderVars, entryVars, loop_track, pc,
                   last_processed_time, detection, call, sleep_from, history>>

\* the track is unsubscribed: its frame stream ends
TrackEnded(t) ==
    /\ t \in subscribed \ ended
    /\ ended' = ended \cup {t}
    /\ UNCHANGED <<now, deadline, max_video_watch_duration, connected, agentVars, analyzerVars,
                   senderVars, entry_pc, subscribed, loopVars, history>>

\* the room connection drops or comes back
ConnectionChange ==
    /\ entry_pc \in {"waiting", "running"}
    /\ connected' = ~connected
    /\ UNCHANGED <<now, deadline, max_video_watch_duration, agentVars, analyzerVars, senderVars,
                   entryVars, loopVars, history>>

\* the wall clock advances by one tick
Tick ==
    /\ entry_pc # "constructed"
    /\ now < deadline
    /\ now' = now + 1
    /\ UNCHANGED <<deadline, max_video_watch_duration, connected, agentVars, analyzerVars, senderVars,
                   entryVars, loopVars, history>>


\* ------------------------------------------------------------ entrypoint

\* asyncio.create_task(self.process_video_track(ctx, track, participant)):
\* the tasks after one more is created for each track of the sequence ts
RECURSIVE CreateTasks(_, _, _, _)
CreateTasks(ts, tracks_of, pcs, hs) ==
    IF ts = <<>> THEN [loop_track |-> tracks_of, pc |-> pcs, history |-> hs]
    ELSE LET l == CHOOSE i \in LoopIds :
                      pcs[i] = "none" /\ \A j \in LoopIds : pcs[j] = "none" => i <= j
         IN CreateTasks(Tail(ts), [tracks_of EXCEPT ![l] = Head(ts)],
                        [pcs EXCEPT ![l] = "start"],
                        [hs EXCEPT ![l].session_start = now])

Tasks == {l \in LoopIds : pc[l] # "none"}

\* a set of tracks as a sequence (the order of participant.track_publications)
RECURSIVE SeqOf(_)
SeqOf(S) == IF S = {} THEN <<>>
            ELSE LET t == CHOOSE x \in S : TRUE IN <<t>> \o SeqOf(S \ {t})

\* the job is assigned: entrypoint() starts and awaits ctx.connect()
EntrypointStart(delay, horizon) ==
    /\ entry_pc = "constructed"
    /\ entry_pc' = "connecting"
    /\ now' = now + delay
    /\ deadline' = now + delay + horizon
    /\ UNCHANGED <<max_video_watch_duration, connected, agentVars, analyzerVars, senderVars,
                   subscribed, ended, loopVars, history>>

\* ctx.connect() has returned: the event handlers are registered and
\* entrypoint awaits ctx.wait_for_participant()
Connect ==
    /\ entry_pc = "connecting"
    /\ entry_pc' = "waiting"
    /\ connected' = TRUE
    /\ UNCHANGED <<now, deadline, max_video_watch_duration, agentVars, analyzerVars, senderVars,
                   subscribed, ended, loopVars, history>>

\* the tasks on_track_subscribed creates for track t
on_track_subscribed(t) ==
    IF entry_pc \in {"waiting", "running"} /\ t \in VideoTracks
    THEN <<t>> ELSE <<>>

\* track t is subscribed; if the handler is registered, on_track_subscribed
\* runs (at most cap tasks are explored)
TrackSubscribed(t, cap) ==
    /\ entry_pc \in {"connecting", "waiting", "running"}
    /\ t \notin subscribed
    /\ subscribed' = subscribed \cup {t}
    /\ Cardinality(Tasks) + Len(on_track_subscribed(t)) <= cap
    /\ LET c == CreateTasks(on_track_subscribed(t), loop_track, pc, history)
       IN /\ loop_track' = c.loop_track
          /\ pc' = c.pc
          /\ history' = c.history
    /\ UNCHANGED <<now, deadline, max_video_watch_duration, connected, agentVars, analyzerVars,
                   senderVars, entry_pc, ended, queue, last_processed_time,
                   detection, call, sleep_from>>

\* the publications the scan of lines 128-141 starts a task for
ExistingVideoTracks == (subscribed \cap VideoTracks) \ ended

\* wait_for_participant() has returned: the scan of the participant's
\* existing publications
ParticipantJoined(cap) ==
    /\ entry_pc = "waiting"
    /\ entry_pc' = "running"
    /\ Cardinality(Tasks) + Cardinality(ExistingVideoTracks) <= cap
    /\ LET c == CreateTasks(SeqOf(ExistingVideoTracks), loop_track, pc, history)
       IN /\ loop_track' = c.loop_track
          /\ pc' = c.pc
          /\ history' = c.history
    /\ UNCHANGED <<now, deadline, max_video_watch_duration, connected, agentVars, analyzerVars,
                   senderVars, subscribed, ended, queue, last_processed_time,
                   detection, call, sleep_from>>

\* ---------------------------------------------------- handle_data_message

TriggerLists == {<<>>, <<"a">>}
Urls == {"u1"}
Undecodable == [undecodable |-> TRUE]
Messages ==
    {[type |-> ty, triggers |-> ts, url |-> u] :
        ty \in {"INIT_TRIGGERS", "UPDATE_TRIGGERS"},
        ts \in TriggerLists, u \in Urls}
    \cup {[type |-> ty, triggers |-> ts] :
        ty \in {"INIT_TRIGGERS", "UPDATE_TRIGGERS"}, ts \in TriggerLists}
    \cup {[type |-> "URL_UPDATE", url |-> u] : u \in Urls}
    \cup {[type |-> ty] :
        ty \in {"INIT_TRIGGERS", "UPDATE_TRIGGERS", "URL_UPDATE", "PING"}}
    \cup {[url |-> u] : u \in Urls}
    \cup {Undecodable}

Has(message, key) == key \in DOMAIN message

\* handle_data_message in which UPDATE_TRIGGERS forgets the tracked URL
handle_data_message_forgetful(message) ==
    IF message = Undecodable \/ ~Has(message, "type")
    THEN <<triggers, current_url>>
    ELSE IF message.type \in {"INIT_TRIGGERS", "UPDATE_TRIGGERS"}
    THEN IF ~Has(message, "triggers") THEN <<triggers, current_url>>
         ELSE <<message.triggers,
                IF Has(message, "url") /\ message.type = "INIT_TRIGGERS"
                THEN message.url ELSE None>>
    ELSE IF message.type = "URL_UPDATE"
    THEN <<triggers, IF Has(message, "url") THEN message.url ELSE None>>
    ELSE <<triggers, current_url>>

\* handle_data_message: <<triggers, current_url>> after the message
handle_data_message(message) ==
    IF message = Undecodable \/ ~Has(message, "type")
    THEN <<triggers, current_url>>
    ELSE IF message.type = "INIT_TRIGGERS"
    THEN IF ~Has(message, "triggers") THEN <<triggers, current_url>>
         ELSE <<message.triggers,
                IF Has(message, "url") THEN message.url ELSE current_url>>
    ELSE IF message.type = "UPDATE_TRIGGERS"
    THEN IF ~Has(message, "triggers") THEN <<triggers, current_url>>
         ELSE <<message.triggers, current_url>>
    ELSE IF message.type = "URL_UPDATE"
    THEN <<triggers, IF Has(message, "url") THEN message.url ELSE None>>
    ELSE <<triggers, current_url>>

\* a data packet is received and its handle_data_message task runs
DataReceived(message) ==
    /\ entry_pc \in {"waiting", "running"}
    /\ triggers' = handle_data_message(message)[1]
    /\ current_url' = handle_data_message(message)[2]
    /\ UNCHANGED <<now, deadline, max_video_watch_duration, connected, last_scroll_time,
                   video_start_time, analyzerVars, senderVars, entryVars,
                   loopVars, history>>

\* ------------------------------------------------------- specification

\* the agent object as __init__ leaves it, but for the watch budget
Constructed ==
    /\ now = Epoch
    /\ deadline = Epoch
    /\ entry_pc = "constructed"
    /\ subscribed = {}
    /\ ended = {}
    /\ connected = FALSE
    /\ triggers = <<>>
    /\ current_url = None
    /\ last_scroll_time = Epoch
    /\ video_start_time = Epoch
    /\ previous_frame_data = NoFrame
    /\ static_frame_count = 0
    /\ command_count = 0
    /\ published = NoCommand
    /\ issued = <<>>
    /\ loop_track = [l \in LoopIds |-> None]
    /\ pc = [l \in LoopIds |-> "none"]
    /\ queue = [l \in LoopIds |-> <<>>]
    /\ last_processed_time = [l \in LoopIds |-> 0]
    /\ detection = [l \in LoopIds |-> NoResult]
    /\ call = [l \in LoopIds |-> NoCall]
    /\ sleep_from = [l \in LoopIds |-> 0]
    /\ history = [l \in LoopIds |-> NoHistory]

\* MAX_VIDEO_WATCH_DURATION is not set: the default budget
Init == Constructed /\ max_video_watch_duration = MaxWatchMs

\* MAX_VIDEO_WATCH_DURATION is set in the environment
BudgetInit == Constructed /\ max_video_watch_duration \in WatchBudgets

\* One track loop against the clock: a single video track and an audio track,
\* every send accepted by the transport.
Next ==
    \/ \E delay \in StartDelays : EntrypointStart(delay, Horizon)
    \/ Connect
    \/ \E t \in {"v1", "a1"} : TrackSubscribed(t, 1)
    \/ ParticipantJoined(1)
    \/ TrackEnded("v1")
    \/ \E f \in Frames : FrameArrive("v1", f, MaxQueue)
    \/ Tick
    \/ \E l \in LoopIds : LoopStart(l)
    \/ \E l \in LoopIds, ok \in BOOLEAN : NextFrame(l, ok, TRUE)
    \/ \E l \in LoopIds, response \in Responses :
          ClassifyReturn(l, _analyze_with_openai(response), TRUE)
    \/ \E l \in LoopIds : Click1Done(l)
    \/ \E l \in LoopIds : SleepDone(l, TRUE)
    \/ \E l \in LoopIds : Click2Done(l, TRUE)
    \/ \E l \in LoopIds : NotifyDone(l, TRUE)
    \/ \E l \in LoopIds : NavDone(l)
    \/ \E l \in LoopIds : LoopEnd(l)

Spec == Init /\ [][Next]_vars

\* Two tasks over the tracks of one participant, tracks subscribed before or
\* after wait_for_participant() returns; the classifier finds nothing.
RaceNext ==
    \/ \E delay \in RaceDelays : EntrypointStart(delay, RaceHorizon)
    \/ Connect
    \/ \E t \in Tracks : TrackSubscribed(t, 2)
    \/ ParticipantJoined(2)
    \/ \E t \in VideoTracks : TrackEnded(t)
    \/ \E t \in VideoTracks : FrameArrive(t, FrameA, MaxQueue + 1)
    \/ Tick
    \/ \E l \in LoopIds : LoopStart(l)
    \/ \E l \in LoopIds : NextFrame(l, TRUE, TRUE)
    \/ \E l \in LoopIds : ClassifyReturn(l, [trigger_detected |-> FALSE, trigger_name |-> None, confidence |-> 10, description |-> "text"], TRUE)
    \/ \E l \in LoopIds : NavDone(l)
    \/ \E l \in LoopIds : LoopEnd(l)

RaceSpec == Init /\ [][RaceNext]_vars

\* the replies in which no trigger is reported
QuietReplies == {r \in Replies : ~r.trigger_detected} \cup {Raised}

\* One track whose frames keep arriving and in which nothing is detected.
LiveNext ==
    \/ \E delay \in StartDelays : EntrypointStart(delay, LiveHorizon)
    \/ Connect
    \/ TrackSubscribed("v1", 1)
    \/ ParticipantJoined(1)
    \/ \E f \in Frames : FrameArrive("v1", f, MaxQueue)
    \/ Tick
    \/ \E l \in LoopIds : LoopStart(l)
    \/ \E l \in LoopIds, ok \in BOOLEAN : NextFrame(l, ok, TRUE)
    \/ \E l \in LoopIds, r \in QuietReplies : ClassifyReturn(l, r, TRUE)
    \/ \E l \in LoopIds : NavDone(l)

\* One track in which nothing is detected, followed for long enough to see
\* the cycles after a suppressed one.
PulseNext ==
    \/ \E delay \in StartDelays : EntrypointStart(delay, PulseHorizon)
    \/ Connect
    \/ TrackSubscribed("v1", 1)
    \/ ParticipantJoined(1)
    \/ \E f \in Frames : FrameArrive("v1", f, MaxQueue)
    \/ Tick
    \/ \E l \in LoopIds : LoopStart(l)
    \/ \E l \in LoopIds, ok \in BOOLEAN : NextFrame(l, ok, TRUE)
    \/ \E l \in LoopIds, r \in QuietReplies : ClassifyReturn(l, r, TRUE)
    \/ \E l \in LoopIds : NavDone(l)

PulseSpec == Init /\ [][PulseNext]_vars

\* One track in which nothing is detected, for each configured watch budget.
BudgetNext ==
    \/ \E delay \in BudgetDelays : EntrypointStart(delay, BudgetHorizon)
    \/ Connect
    \/ TrackSubscribed("v1", 1)
    \/ ParticipantJoined(1)
    \/ \E f \in Frames : FrameArrive("v1", f, MaxQueue)
    \/ Tick
    \/ \E l \in LoopIds : LoopStart(l)
    \/ \E l \in LoopIds, ok \in BOOLEAN : NextFrame(l, ok, TRUE)
    \/ \E l \in LoopIds, r \in QuietReplies : ClassifyReturn(l, r, TRUE)
    \/ \E l \in LoopIds : NavDone(l)

BudgetSpec == BudgetInit /\ [][BudgetNext]_vars

\* _detect_video_end(frame) is called on the analyzer; readable says whether
\* bytes(frame.data) succeeds (if not, the except branch returns False and
\* the analyzer is left as it was).  call[1] keeps the call: its frame, the
\* buffer it was compared with, the similarity it computed, the counter before it and the value returned.
DetectVideoEnd(frame, readable) ==
    /\ LET r == _detect_video_end(frame, previous_frame_data, static_frame_count)
       IN /\ previous_frame_data' =
                IF readable THEN r.prev ELSE previous_frame_data
          /\ static_frame_count' =
                IF readable THEN r.count ELSE static_frame_count
          /\ call' = [call EXCEPT ![1] =
                 [frame |-> frame, readable |-> readable,
                  previous |-> previous_frame_data,
                  compared |-> readable /\ previous_frame_data # NoFrame,
                  similarity |->
                     IF readable /\ previous_frame_data # NoFrame
                     THEN _calculate_frame_similarity(frame, previous_frame_data)
                     ELSE [num |-> 0, den |-> 1],
                  before |-> static_frame_count,
                  video_ended |-> readable /\ r.ended]]
    /\ UNCHANGED <<now, deadline, max_video_watch_duration, connected,
                   agentVars, senderVars, entryVars, loop_track, pc, queue,
                   last_processed_time, detection, sleep_from, history>>

\* The stillness detector alone, called on one frame after the other.
AnalyzerNext ==
    \E frame \in AnalyzerFrames, readable \in BOOLEAN :
        DetectVideoEnd(frame, readable)

AnalyzerSpec == Init /\ [][AnalyzerNext]_vars

\* the clock runs, the stream delivers frames, the event loop runs every
\* task that is ready and every awaited call returns
LiveSpec ==
    /\ Init
    /\ [][LiveNext]_vars
    /\ WF_vars(Tick)
    /\ WF_vars(\E f \in Frames : FrameArrive("v1", f, MaxQueue))
    /\ WF_vars(\E l \in LoopIds : LoopStart(l))
    /\ WF_vars(\E l \in LoopIds, ok \in BOOLEAN : NextFrame(l, ok, TRUE))
    /\ WF_vars(\E l \in LoopIds, r \in QuietReplies : ClassifyReturn(l, r, TRUE))
    /\ WF_vars(\E l \in LoopIds : NavDone(l))

\* One track in which nothing is detected and whose frame stream ends.
EndNext ==
    \/ LiveNext
    \/ TrackEnded("v1")
    \/ \E l \in LoopIds : LoopEnd(l)

\* the event loop runs every task that is ready and every awaited call
\* returns; the track may end at any time
EndSpec ==
    /\ Init
    /\ [][EndNext]_vars
    /\ WF_vars(Tick)
    /\ WF_vars(\E l \in LoopIds : LoopStart(l))
    /\ WF_vars(\E l \in LoopIds, ok \in BOOLEAN : NextFrame(l, ok, TRUE))
    /\ WF_vars(\E l \in LoopIds, r \in QuietReplies : ClassifyReturn(l, r, TRUE))
    /\ WF_vars(\E l \in LoopIds : NavDone(l))
    /\ WF_vars(\E l \in LoopIds : LoopEnd(l))

\* One track loop with its environment: data messages from the extension,
\* the room connection dropping and returning, publish_data failing, and the
\* sender's counter being reset; the frames of the track are all alike.
ControlNext ==
    \/ \E delay \in RaceDelays : EntrypointStart(delay, ControlHorizon)
    \/ Connect
    \/ TrackSubscribed("v1", 1)
    \/ ParticipantJoined(1)
    \/ FrameArrive("v1", FrameA, MaxQueue)
    \/ Tick
    \/ ConnectionChange
    \/ ResetCounter
    \/ \E message \in Messages : DataReceived(message)
    \/ \E l \in LoopIds : LoopStart(l)
    \/ \E l \in LoopIds, ok, accepted \in BOOLEAN : NextFrame(l, ok, accepted)
    \/ \E l \in LoopIds, r \in Replies \cup {Raised, OffListReply},
             accepted \in BOOLEAN :
          ClassifyReturn(l, r, accepted)
    \/ \E l \in LoopIds : Click1Done(l)
    \/ \E l \in LoopIds, accepted \in BOOLEAN : SleepDone(l, accepted)
    \/ \E l \in LoopIds, accepted \in BOOLEAN : Click2Done(l, accepted)
    \/ \E l \in LoopIds, accepted \in BOOLEAN : NotifyDone(l, accepted)
    \/ \E l \in LoopIds : NavDone(l)

ControlSpec == Init /\ [][ControlNext]_vars

\* ----------------------------------------------------------- the steps

\* task l decides to send the next-video click (NavigateNext) in this step
SendsNext(l) == pc[l] # "nav" /\ pc'[l] = "nav"

\* task l takes a frame for analysis in this step
Samples(l) ==
    pc[l] = "idle" /\ last_processed_time'[l] # last_processed_time[l]

\* task l consumes a frame without analysing it in this step
Skips(l) ==
    /\ pc[l] = "idle" /\ queue[l] # <<>> /\ queue'[l] = Tail(queue[l])
    /\ last_processed_time'[l] = last_processed_time[l]

\* task l hands a frame to the stillness detector and the model in this step
Analyses(l) == pc[l] = "idle" /\ pc'[l] = "classify"

\* analyze_frame returns to task l in this step and the cycle is decided
Decides(l) ==
    \/ pc[l] = "classify" /\ pc'[l] # "classify"
    \/ Samples(l) /\ pc'[l] # "classify"

\* the decided cycle of task l is a navigation candidate
EligibleCycle(l) ==
    Decides(l) /\ ~LogRaises(detection'[l]) /\ history'[l].elig_at = now

\* the frame compared in an Analyses step is more than 95% like the previous
Similar(l) ==
    /\ previous_frame_data # NoFrame
    /\ VerySimilar(_calculate_frame_similarity(Head(queue[l]),
                                               previous_frame_data))

\* ---------------------------------------------------------------- claims

\* C1: a cycle whose DetectionResult has trigger_detected = true never sends
\* the navigate-next command, whatever video_ended and the elapsed watch time
\* are.
C1_MutualExclusivity ==
    [][\A l \in LoopIds : SendsNext(l) => ~detection'[l].trigger_detected]_vars

\* a trigger cycle with video_ended set and the watch budget used up has
\* sent its clicks and is about to run the navigation check
C1_Witness ==
    \E l \in LoopIds :
        /\ pc[l] = "notify"
        /\ detection[l].trigger_detected
        /\ detection[l].video_ended
        /\ TimeBasedEnd(now - video_start_time)

C3_MonotonicIds ==
    /\ issued = [i \in 1..Len(issued) |-> i]
    /\ command_count = Len(issued)

\* three commands have been dispatched
C3_Witness == Len(issued) >= 3

\* C4 as stated: in a session whose every result was a non-detection without
\* video_ended, no NavigateNext is sent before the session, created when its
\* track was subscribed, is maxWatchDuration old, and one is sent by the
\* cycle decided once it is.
C4_AsStated ==
    [][\A l \in LoopIds :
         (/\ Decides(l) /\ ~detection'[l].error
          /\ history'[l].clean /\ triggers = <<>>) =>
            /\ SendsNext(l) =>
                  (now - history[l].session_start) * TickMs >= MaxWatchMs
            /\ ((now - history[l].session_start) * TickMs >= MaxWatchMs
                  /\ history[l].nav_at = 0) => SendsNext(l)]_vars

C6_StillnessEdgeTrigger ==
    [][\A l \in LoopIds :
         Analyses(l) =>
            /\ call'[l].video_ended <=> (Similar(l) /\ static_frame_count = 4)
            /\ call'[l].video_ended => static_frame_count' = 0
            /\ (Similar(l) /\ ~call'[l].video_ended)
                  => static_frame_count' = static_frame_count + 1]_vars

\* the detector has just fired and the counter is back at 0
C6_Witness ==
    \E l \in LoopIds :
        pc[l] = "classify" /\ call[l].video_ended /\ static_frame_count = 0

\* C7 as stated: the first frame the only task of a track hands to the
\* stillness detector finds the previous-frame slot empty, returns false and leaves the counter
\* alone, whatever other tasks of the agent have analysed before.
C7_AsStated ==
    [][\A l \in LoopIds :
         (/\ Analyses(l) /\ last_processed_time[l] = 0
          /\ \A k \in LoopIds \ {l} : loop_track[k] # loop_track[l]) =>
            /\ previous_frame_data = NoFrame
            /\ ~call'[l].video_ended
            /\ static_frame_count' = static_frame_count]_vars

\* C8: two frames a track loop samples one after the other are at least
\* 1/fps apart on the wall clock, fps being the limit applied to the later
\* one; a frame consumed before that changes nothing and raises nothing.
C8_SamplingInterval ==
    [][\A l \in LoopIds :
         /\ Samples(l) =>
               (now - last_processed_time[l]) * TickMs
                  * FpsLimit(now - video_start_time) >= 1000
         /\ Skips(l) =>
               UNCHANGED <<pc, detection, call, agentVars, analyzerVars,
                           senderVars, history>>]_vars

\* a task is analysing a frame that was compared with an earlier sample
C8_Witness ==
    \E l \in LoopIds :
        /\ pc[l] = "classify"
        /\ static_frame_count >= 1
        /\ last_processed_time[l] = now

\* C9 as stated: no frame is buffered while a cycle is in flight, and a frame
\* taken for analysis is the latest one that arrived on the track.
C9_AsStated ==
    [][\A l \in LoopIds :
         /\ pc'[l] \in {"classify", "click1", "sleep", "click2", "notify", "nav"}
               => queue'[l] = <<>>
         /\ Samples(l) => Tail(queue[l]) = <<>>]_vars

\* C10 as stated: no video track ever has more than one process_video_track
\* task.
C10_AsStated ==
    \A t \in VideoTracks :
        Cardinality({l \in LoopIds : pc[l] # "none" /\ loop_track[l] = t}) <= 1

\* C11 as stated: with tasks running on two different video tracks, a step
\* of one track's task never writes the watch-timer start, the last-action
\* time or the stillness state that the other track's task, which has
\* already analysed a frame, works with.
C11_AsStated ==
    [][\A k, l \in LoopIds :
         (/\ k # l
          /\ pc[k] \notin {"none", "start", "done"}
          /\ pc[l] \notin {"none", "start", "done"}
          /\ loop_track[k] # loop_track[l]
          /\ last_processed_time[k] # 0
          /\ pc'[l] # pc[l]) =>
            UNCHANGED <<video_start_time, last_scroll_time,
                        previous_frame_data, static_frame_count>>]_vars

\* C12: analyze_frame always returns to its caller, and whenever something
\* in it failed (the frame conversion, the model call, the parsing of the
\* reply, a missing key) what it returns is the non-detection with
\* trigger_detected = false, trigger_name = None, confidence = 0, the error
\* text in the description and video_ended = false.
C12_ClassifierFailurePolicy ==
    [][\A l \in LoopIds :
         /\ Decides(l) =>
               /\ pc'[l] \in {"idle", "click1", "nav"}
               /\ detection'[l].error =>
                     /\ ~detection'[l].trigger_detected
                     /\ detection'[l].trigger_name = None
                     /\ detection'[l].confidence = 0
                     /\ ~detection'[l].video_ended
               /\ \A response \in Responses, video_ended \in BOOLEAN :
                     (response.kind # "json" \/ response.missing # "none")
                        => /\ analyze_frame(response, video_ended).error
                           /\ ~analyze_frame(response, video_ended).trigger_detected
         /\ (Samples(l) /\ pc'[l] # "classify") => detection'[l].error]_vars

\* a failed analysis was returned as a non-detection and the task is back at
\* the head of its loop, with frames of the track still to come
C12_Witness ==
    \E l \in LoopIds :
        /\ pc[l] = "idle"
        /\ detection[l] # NoResult
        /\ detection[l].error
        /\ loop_track[l] \notin ended
        /\ static_frame_count > 0

\* C13 as stated: a cycle in which a stage failed (analyze_frame returned its
\* error result, or the code after it raised) sends nothing, and the task
\* is back at the head of its loop.
C13_AsStated ==
    [][\A l \in LoopIds :
         (Decides(l) /\ (detection'[l].error \/ LogRaises(detection'[l]))) =>
            (pc'[l] = "idle" /\ UNCHANGED senderVars)]_vars

\* C13 amended: a task ends only when its frame stream has ended; a cycle
\* whose analysis failed is decided as a non-detection, so it starts no
\* trigger sequence and sends the next-video click exactly when the watch
\* time is used up and the rate limit allows it; a cycle in which the code
\* after the analysis raised sends nothing and leaves the timers alone.
C13_LoopSurvivesErrors ==
    [][\A l \in LoopIds :
         /\ (pc[l] # "done" /\ pc'[l] = "done") =>
               (pc[l] = "idle" /\ queue[l] = <<>> /\ loop_track[l] \in ended)
         /\ (Decides(l) /\ detection'[l].error) =>
               /\ pc'[l] \in {"idle", "nav"}
               /\ pc'[l] = "nav" <=>
                     (/\ TimeBasedEnd(now - video_start_time)
                      /\ (now - last_scroll_time) * TickMs >= MinIntervalMs)
         /\ (Decides(l) /\ LogRaises(detection'[l])) =>
               /\ pc'[l] = "idle"
               /\ UNCHANGED <<senderVars, video_start_time,
                              last_scroll_time>>]_vars

\* after a cycle whose analysis failed and which sent the next-video click,
\* the task is analysing the next frame
C13_Witness ==
    \E l \in LoopIds :
        /\ pc[l] = "classify"
        /\ detection[l] # NoResult
        /\ detection[l].error
        /\ published # NoCommand
        /\ published.cmd.method = "tiktok_next_video"
        /\ history[l].nav_at # 0
        /\ history[l].clean

\* C14: while room.isconnected() is false no send publishes anything and no
\* send raises: the sending task moves on to its next step; broadcast_data
\* is skipped; and what is published at any time is the command built in that
\* very step, never one held back from a time without connection.
C14_DisconnectedSendsNothing ==
    [][/\ published' # published =>
             /\ connected
             /\ published'.cmd.command_id = command_count'
             /\ command_count' = command_count + 1
       /\ Len(issued') > Len(issued) =>
             \E l \in LoopIds :
                 pc'[l] # pc[l] /\ pc'[l] \in {"click1", "click2", "notify", "nav"}
       /\ ~connected =>
             \A accepted \in BOOLEAN : broadcast_data(accepted) = "skipped"]_vars

\* a trigger sequence has sent its three commands into a disconnected room
\* and none of them was published
C14_Witness ==
    \E l \in LoopIds :
        /\ ~connected
        /\ pc[l] = "notify"
        /\ Len(issued) >= 3
        /\ published = NoCommand

\* C15: an analyze_frame call in flight keeps the prompt it was started
\* with whatever control messages arrive meanwhile, and a call that starts
\* uses the trigger set of that moment: the general-detection prompt when
\* the set is empty, else the prompt naming exactly that set.
C15_TriggerUpdateTakesEffectNextFrame ==
    [][\A l \in LoopIds :
         /\ (pc[l] = "classify" /\ pc'[l] = "classify") => call'[l] = call[l]
         /\ Analyses(l) =>
               call'[l].prompt =
                  IF triggers = <<>>
                  THEN [mode |-> "general", triggers |-> <<>>]
                  ELSE [mode |-> "closed", triggers |-> triggers]]_vars

\* the trigger set was emptied while a call with the closed-set prompt is in
\* flight
C15_Witness ==
    \E l \in LoopIds :
        /\ pc[l] = "classify"
        /\ call[l].prompt.mode = "closed"
        /\ triggers = <<>>

\* C16: in every state from which a step changes the trigger set or the URL
\* (the message handler runs there), INIT_TRIGGERS with a trigger list
\* replaces the trigger set, and the URL only if it carries one; UPDATE_TRIGGERS with a trigger list replaces
\* the trigger set and keeps the URL; URL_UPDATE with a url replaces the URL
\* and keeps the trigger set; a message of an unknown type changes neither;
\* and a step that changes the trigger set or the URL changes nothing else
\* of the agent, the analyzer, the sender or the tasks.
C16_ControlMessageFrame ==
    [][/\ (triggers' # triggers \/ current_url' # current_url) =>
             \A message \in Messages \ {Undecodable} :
                Has(message, "type") =>
                   /\ (message.type = "INIT_TRIGGERS" /\ Has(message, "triggers")) =>
                         handle_data_message(message) =
                            <<message.triggers,
                              IF Has(message, "url") THEN message.url
                              ELSE current_url>>
                   /\ (message.type = "UPDATE_TRIGGERS" /\ Has(message, "triggers")) =>
                         handle_data_message(message) =
                            <<message.triggers, current_url>>
                   /\ (message.type = "URL_UPDATE" /\ Has(message, "url")) =>
                         handle_data_message(message) = <<triggers, message.url>>
                   /\ message.type \notin
                         {"INIT_TRIGGERS", "UPDATE_TRIGGERS", "URL_UPDATE"} =>
                         handle_data_message(message) = <<triggers, current_url>>
       /\ (triggers' # triggers \/ current_url' # current_url) =>
             UNCHANGED <<video_start_time, last_scroll_time, analyzerVars,
                         senderVars, loopVars, connected>>]_vars

\* a trigger list and a URL were received and a frame is being classified
C16_Witness ==
    \E l \in LoopIds :
        /\ triggers = <<"a">>
        /\ current_url = "u1"
        /\ pc[l] = "classify"
        /\ call[l].prompt.mode = "general"

\* C17 as stated: a malformed control message (undecodable, without a type,
\* INIT_TRIGGERS or UPDATE_TRIGGERS without triggers, URL_UPDATE without a
\* url) leaves the trigger set and the tracked URL exactly as they were.
C17_AsStated ==
    \A message \in Messages :
        (\/ message = Undecodable
         \/ ~Has(message, "type")
         \/ /\ message.type \in {"INIT_TRIGGERS", "UPDATE_TRIGGERS"}
            /\ ~Has(message, "triggers")
         \/ message.type = "URL_UPDATE" /\ ~Has(message, "url"))
        => handle_data_message(message) = <<triggers, current_url>>

\* C18 as stated: when the call was made with a non-empty trigger set and the
\* reply has trigger_detected = true with a trigger_name that is not in that
\* set, the cycle starts no click sequence and sends nothing.
C18_AsStated ==
    [][\A l \in LoopIds :
         (/\ pc[l] = "classify" /\ pc'[l] # "classify"
          /\ call[l].prompt.mode = "closed"
          /\ detection'[l].trigger_detected
          /\ \A i \in DOMAIN call[l].prompt.triggers :
                call[l].prompt.triggers[i] # detection'[l].trigger_name) =>
            (pc'[l] # "click1" /\ UNCHANGED senderVars)]_vars

\* C19 as stated: at any time at most one analyze_frame call is in flight
\* for a video track.
C19_AsStated ==
    \A t \in VideoTracks :
        Cardinality({l \in LoopIds : loop_track[l] = t /\ pc[l] = "classify"}) <= 1

\* C20 as stated, for the commands of one track: when a command is published
\* right after a command whose cycle is still under way, the frame it was
\* decided for was sampled no earlier than the frame of that cycle.
C20_AsStated ==
    [][\A k, l \in LoopIds :
         (/\ k # l
          /\ loop_track[k] = loop_track[l]
          /\ published # NoCommand
          /\ published.loop = k
          /\ pc[k] \in {"click1", "sleep", "click2", "notify", "nav"}
          /\ published' # published
          /\ published'.loop = l) =>
            last_processed_time[k] <= last_processed_time[l]]_vars

\* C21: the steps of the trigger sequence are dispatched one after the
\* other whatever became of the sends: a task that has sent step 1 goes on
\* to the sleep, step 2 and the notification, each send taking one fresh
\* command id, whether or not the transport took the payload; a payload
\* the transport took is never withdrawn; and once the notification has
\* returned the cycle ends without sending anything again.
C21_SequenceNotAtomic ==
    [][\A l \in LoopIds :
         /\ (pc[l] = "click1" /\ pc'[l] # "click1") =>
               (pc'[l] = "sleep" /\ UNCHANGED senderVars)
         /\ (pc[l] = "sleep" /\ pc'[l] # "sleep") =>
               /\ pc'[l] = "click2"
               /\ command_count' = command_count + 1
               /\ Delivered(TRUE) =>
                     (published' = published
                      \/ (published'.loop = l
                          /\ published'.cmd.method = "tiktok_not_interested"))
         /\ (pc[l] = "click2" /\ pc'[l] # "click2") =>
               /\ pc'[l] = "notify"
               /\ command_count' = command_count + 1
         /\ (pc[l] = "notify" /\ pc'[l] # "notify") =>
               (pc'[l] = "idle" /\ UNCHANGED senderVars)
         /\ (published # NoCommand /\ published' # published) =>
               (published' # NoCommand
                /\ published'.cmd.command_id = command_count')]_vars

\* the notification of a sequence was attempted although the transport took
\* none of its three payloads
C21_Witness ==
    \E l \in LoopIds :
        /\ pc[l] = "notify"
        /\ command_count = 3
        /\ published = NoCommand

\* task l reads its stream, the watch budget is spent and the clock runs
BudgetSpent(l) ==
    /\ pc[l] \notin {"none", "done"}
    /\ (now - video_start_time) * TickMs >= MaxWatchMs
    /\ now < deadline

\* task l awaits the send of its next-video click
NavigationSent(l) == pc[l] = "nav"

C23_AsStated ==
    [][\A l \in LoopIds :
         LET fps == IF (now - video_start_time) * TickMs
                          > max_video_watch_duration - 3000
                    THEN 4 ELSE 2
         IN /\ Skips(l) => Throttled(now, last_processed_time[l], fps)
            /\ Samples(l) => ~Throttled(now, last_processed_time[l], fps)]_vars

\* C24: between two calls of _detect_video_end the counter is at least 0
\* and below static_threshold; a call that returned true was made with the
\* counter one below the threshold and left it at 0.
C24_StillnessCounterInvariant ==
    /\ static_frame_count \in 0..(static_threshold - 1)
    /\ (call[1] # NoCall /\ call[1].video_ended) =>
          (static_frame_count = 0 /\ call[1].before = static_threshold - 1)

\* a call has just returned true
C24_Witness ==
    /\ call[1] # NoCall
    /\ call[1].video_ended
    /\ call[1].before = static_threshold - 1
    /\ static_frame_count = 0

\* C25: a call that compares its frame with the previous one adds exactly
\* one to the counter when more than 95 in 100 of the sampled positions are
\* equal (the counter going back to 0 if that reaches the threshold), and
\* sets the counter to 0, whatever it was, when 95 in 100 or fewer are.
C25_ThresholdBoundary ==
    [][(call'[1] # NoCall /\ call'[1].compared) =>
          LET equal == Cardinality(
                  {k \in DOMAIN call'[1].frame.bytes :
                      call'[1].frame.bytes[k] = previous_frame_data.bytes[k]})
              samples == Len(call'[1].frame.bytes)
              above ==
                  /\ call'[1].frame.len = previous_frame_data.len
                  /\ equal * 100 > 95 * samples
          IN /\ above =>
                   static_frame_count' =
                      IF static_frame_count + 1 = static_threshold THEN 0
                      ELSE static_frame_count + 1
             /\ ~above => static_frame_count' = 0]_vars

\* 38 of 40 sampled positions were equal (similarity exactly 0.95) and the
\* counter, which was above 0, is back at 0
C25_Witness ==
    /\ call[1] # NoCall
    /\ call[1].compared
    /\ call[1].similarity = [num |-> 38, den |-> 40]
    /\ call[1].before = 3
    /\ ~call[1].video_ended
    /\ static_frame_count = 0

C27_SuppressedCycleFrame ==
    [][\A l \in LoopIds :
         (/\ Decides(l)
          /\ ~detection'[l].trigger_detected
          /\ \/ /\ detection'[l].video_ended
                   \/ (now - video_start_time) * TickMs >= max_video_watch_duration
                /\ (now - last_scroll_time) * TickMs < MinIntervalMs
             \/ /\ ~detection'[l].video_ended
                /\ (now - video_start_time) * TickMs < max_video_watch_duration) =>
            /\ UNCHANGED <<last_scroll_time, video_start_time, senderVars>>
            /\ pc'[l] = "idle"]_vars

\* a cycle that found the video ended was decided 250 ms after the last
\* next-video click and sent nothing
C27_Witness ==
    \E l \in LoopIds :
        /\ pc[l] = "idle"
        /\ detection[l] # NoResult
        /\ detection[l].video_ended
        /\ ~detection[l].trigger_detected
        /\ history[l].elig_at = now
        /\ ~history[l].elig_emitted
        /\ now - last_scroll_time = 1

\* C28: when the trigger sequence of a task completes (its notification has
\* returned) last_scroll_time is set to that time; last_scroll_time never
\* goes back; and a next-video click is only sent 0.5 s or more after
\* last_scroll_time: so none is sent less than 0.5 s after a trigger
\* sequence completed.
C28_NoNavigationAfterTrigger ==
    [][/\ \A l \in LoopIds :
            /\ (pc[l] = "notify" /\ pc'[l] # "notify") =>
                  last_scroll_time' = now
            /\ SendsNext(l) =>
                  (now - last_scroll_time) * TickMs >= MinIntervalMs
       /\ last_scroll_time' >= last_scroll_time]_vars

\* right after a trigger sequence completed (its notification is the last
\* payload published) a cycle found the video ended and sent nothing
C28_Witness ==
    \E l \in LoopIds :
        /\ pc[l] = "idle"
        /\ published # NoCommand
        /\ published.cmd.type = "TRIGGER_DETECTED"
        /\ detection[l].video_ended
        /\ ~detection[l].trigger_detected
        /\ history[l].elig_at = now
        /\ ~history[l].elig_emitted
        /\ (now - last_scroll_time) * TickMs < MinIntervalMs

\* C29 as stated: the payload published for a next-video click carries the
\* selector, the method and the fallback "scroll_down" of the decision.
C29_AsStated ==
    (published # NoCommand /\ published.cmd.type = "CLICK_ELEMENT"
     /\ published.cmd.method = NextVideo.method) =>
        /\ published.cmd.selector = NextVideo.selector
        /\ "fallback" \in DOMAIN published.cmd
        /\ published.cmd.fallback = NextVideo.fallback

\* C30 as stated: every sampled frame has the vision model called for it.
C30_AsStated ==
    [][\A l \in LoopIds : Samples(l) => pc'[l] = "classify"]_vars

\* C30 amended: an analyze_frame invocation calls the model at most once and
\* never again after a failure: the model is called only in the step that
\* samples a frame, an invocation whose call is in flight has made exactly
\* one call, its return ends the invocation, and an invocation that made no
\* call returns the error result.
C30_AtMostOneModelCall ==
    [][\A l \in LoopIds :
         /\ (pc'[l] = "classify" /\ pc[l] # "classify") => Samples(l)
         /\ pc'[l] = "classify" => call'[l].model_calls = 1
         /\ (pc[l] = "classify" /\ call'[l] # call[l]) =>
               (call'[l] = NoCall /\ pc'[l] # "classify")
         /\ (Samples(l) /\ pc'[l] # "classify") =>
               (detection'[l] = ErrorResult /\ call'[l] = NoCall)]_vars

\* an invocation made for the frame sampled last returned the error result
\* (its conversion failed, or its one model call raised), no call is in
\* flight and the task is back at the head of its loop
C30_Witness ==
    \E l \in LoopIds :
        /\ pc[l] = "idle"
        /\ detection[l] = ErrorResult
        /\ call[l] = NoCall
        /\ previous_frame_data # NoFrame
        /\ last_processed_time[l] = now

\* the frame stream of task l's track has ended
StreamEnded(l) == pc[l] # "none" /\ loop_track[l] \in ended

\* task l has left its "async for" loop
Terminated(l) == pc[l] = "done"

\* C31: a task whose frame stream has ended terminates; it does so only
\* from the head of its loop, once the cycle in flight (classification and
\* send) has come to its end; and a terminated task stays terminated and
\* publishes nothing.
C31_LoopTerminates ==
    /\ StreamEnded(1) ~> Terminated(1)
    /\ StreamEnded(2) ~> Terminated(2)
    /\ [][\A l \in LoopIds :
            /\ (pc'[l] = "done" /\ pc[l] # "done") =>
                  (pc[l] = "idle" /\ loop_track[l] \in ended)
            /\ pc[l] = "done" =>
                  /\ pc'[l] = "done"
                  /\ published' # published => published'.loop # l]_vars

\* the next-video click of a cycle was sent, the send returned and, the
\* stream of the track having ended, the task has terminated
C31_Witness ==
    \E l \in LoopIds :
        /\ pc[l] = "done"
        /\ published # NoCommand
        /\ published.loop = l
        /\ last_scroll_time = now
        /\ history[l].nav_at = now

\* C32: every step in which a task sends a command (a click of the trigger
\* sequence, the notification, the next-video click) adds exactly one to
\* command_count, published or not; nothing is published while the room is
\* disconnected; a published payload carries the id just taken; and, the
\* counter not having been reset below it, a newly published id is greater
\* than the one published before.
C32_IdConsumedByEveryAttempt ==
    [][\A l \in LoopIds :
         (pc'[l] # pc[l] /\ pc'[l] \in {"click1", "click2", "notify", "nav"}) =>
            /\ command_count' = command_count + 1
            /\ issued' = Append(issued, command_count + 1)
            /\ ~connected => published' = published
            /\ published' # published =>
                  /\ published'.loop = l
                  /\ published'.cmd.command_id = command_count + 1
                  /\ (published # NoCommand
                      /\ command_count >= published.cmd.command_id) =>
                        published'.cmd.command_id > published.cmd.command_id]_vars

\* three ids were taken and only the first of them was published
C32_Witness ==
    /\ published # NoCommand
    /\ published.cmd.command_id = 1
    /\ issued = <<1, 2, 3>>
    /\ command_count = 3

\* C33: when the send of the next-video click, or the last send of a
\* trigger sequence, has returned, last_scroll_time and video_start_time
\* are set to the current time, whether or not any payload was published.
C33_TimersRestartWithoutDelivery ==
    [][\A l \in LoopIds :
         (pc[l] \in {"nav", "notify"} /\ pc'[l] # pc[l]) =>
            /\ last_scroll_time' = now
            /\ video_start_time' = now
            /\ pc'[l] = "idle"]_vars

\* a next-video click was sent and not published (nothing has ever been
\* published), and both timers were restarted long after the agent was built
C33_Witness ==
    \E l \in LoopIds :
        /\ pc[l] = "idle"
        /\ history[l].nav_at # 0
        /\ command_count = 1
        /\ published = NoCommand
        /\ last_scroll_time = video_start_time
        /\ last_scroll_time >= history[l].nav_at

\* C34: when the stillness detector has fired for the frame of a call (the
\* counter is back at 0 and the frame is the previous frame) and the model
\* call then fails, the result handed to the decision has video_ended =
\* false, the analyzer keeps the counter at 0 and the frame, and the cycle
\* sends the next-video click only if the watch budget is spent.
C34_PulseLostOnFailure ==
    [][\A l \in LoopIds :
         (/\ pc[l] = "classify" /\ pc'[l] # "classify"
          /\ call[l].video_ended
          /\ detection'[l].error) =>
            /\ ~detection'[l].video_ended
            /\ static_frame_count = 0
            /\ UNCHANGED analyzerVars
            /\ previous_frame_data # NoFrame
            /\ SendsNext(l) =>
                  (now - video_start_time) * TickMs >= max_video_watch_duration]_vars

\* the stillness detector has fired for the frame of a call that is in
\* flight, before the watch budget is spent: the counter is back at 0 and
\* the pulse is held by the call alone, which may now fail
C34_Witness ==
    \E l \in LoopIds :
        /\ pc[l] = "classify"
        /\ call[l].video_ended
        /\ static_frame_count = 0
        /\ previous_frame_data # NoFrame
        /\ (now - video_start_time) * TickMs < max_video_watch_duration

C36_IdsUniqueAcrossTasks ==
    [][(issued' # issued) =>
         /\ command_count' = command_count + 1
         /\ issued' = Append(issued, command_count')
         /\ \A i \in 1..Len(issued) : issued[i] < command_count'
         /\ \A i, j \in 1..Len(issued') :
                i < j => issued'[i] < issued'[j]
         /\ Delivered(TRUE) => published'.cmd.command_id = command_count']_vars

\* both tasks are inside a send sequence at once: the second command was
\* built while the task of the first one was suspended
C36_Witness ==
    /\ pc[1] = "nav"
    /\ pc[2] = "nav"
    /\ Len(issued) >= 2
    /\ published.loop = 2

\* C37: the next-video click is only sent by a cycle whose own result has
\* video_ended = true or whose watch budget is spent; a cycle that follows a
\* cycle suppressed by the rate limit, and is itself neither, sends nothing
\* and leaves the timers and the command counter as they were.
C37_SuppressedPulseForgotten ==
    [][\A l \in LoopIds :
         /\ SendsNext(l) =>
               /\ \/ detection'[l].video_ended
                  \/ (now - video_start_time) * TickMs >= max_video_watch_duration
               /\ ~detection'[l].trigger_detected
         /\ (/\ Decides(l)
             /\ history[l].elig_at # 0
             /\ ~history[l].elig_emitted
             /\ ~detection'[l].trigger_detected
             /\ ~detection'[l].video_ended
             /\ (now - video_start_time) * TickMs < max_video_watch_duration) =>
               /\ pc'[l] = "idle"
               /\ UNCHANGED <<last_scroll_time, video_start_time, senderVars>>
               /\ ~history'[l].elig_emitted]_vars

\* a video_ended pulse was suppressed by the rate limit, and a later cycle,
\* decided 0.5 s or more after the last action with the budget not spent and
\* no new pulse, has sent nothing
C37_Witness ==
    \E l \in LoopIds :
        /\ pc[l] = "idle"
        /\ detection[l] # NoResult
        /\ ~LogRaises(detection[l])
        /\ ~detection[l].video_ended
        /\ ~detection[l].trigger_detected
        /\ ~history[l].elig_emitted
        /\ history[l].elig_at > history[l].nav_at
        /\ history[l].elig_at >= last_scroll_time
        /\ (history[l].elig_at - video_start_time) * TickMs
              < max_video_watch_duration
        /\ last_processed_time[l] > history[l].elig_at
        /\ (last_processed_time[l] - last_scroll_time) * TickMs >= MinIntervalMs
        /\ (last_processed_time[l] - video_start_time) * TickMs
              < max_video_watch_duration

\* C38: the similarity of two buffers is the same in either order; a call
\* that compares a non-empty buffer with an equal one computes 1 (matches =
\* samples > 0); a call that compares an empty buffer with an empty one
\* computes 0, reports no end and leaves the static counter at 0.
C38_SimilaritySymmetricEmptyZero ==
    [][(call'[1] # NoCall /\ call'[1].compared) =>
          LET data1 == call'[1].frame
              data2 == call'[1].previous
              similarity == call'[1].similarity
          IN /\ \A a, b \in AnalyzerFrames :
                   _calculate_frame_similarity(a, b)
                      = _calculate_frame_similarity(b, a)
             /\ similarity = _calculate_frame_similarity(data2, data1)
             /\ (data1 = data2 /\ data1.len > 0) =>
                   similarity.num = similarity.den /\ similarity.num > 0
             /\ (data1.len = 0 /\ data2.len = 0) =>
                   /\ similarity.num = 0
                   /\ static_frame_count' = 0
                   /\ ~call'[1].video_ended]_vars

\* an empty buffer was compared with the empty buffer stored before it: the
\* similarity was 0 and the counter is at 0
C38_Witness ==
    /\ call[1] # NoCall
    /\ call[1].compared
    /\ call[1].frame = EmptyFrame
    /\ call[1].previous = EmptyFrame
    /\ call[1].similarity = [num |-> 0, den |-> 1]
    /\ previous_frame_data = EmptyFrame
    /\ static_frame_count = 0

====
